---- MODULE Spec2Model ----
(***************************************************************************)
(* Inventory service (src/main.js): the in-memory item collection, the     *)
(* persisted document inventory.json, the photo directory and the HTTP     *)
(* handlers that act on them.                                              *)
(*                                                                         *)
(* A JavaScript string is a sequence of string chunks, so that             *)
(* concatenation is \o and trim, Number and String are computed.  The      *)
(* values undefined and null are the two reserved sequences below.         *)
(***************************************************************************)
EXTENDS Integers, Sequences, FiniteSets, TLC

\* inventory  the collection in memory (let inventory, line 46)
\* disk       the file inventory.json (DB_FILE, line 24)
\* blobs      the names of the files in the photo directory (PHOTOS_DIR)
\* unlinking  the files whose fs.promises.unlink has not settled yet
\* uploads    the number of files multer has stored so far
\* failures   the number of writes of the document that have failed
\* req, res   the request in hand and the response given to it
\* freed      history of deleted and re-given ids
\* inflight   the requests whose upload is done and whose handler has not
\*            run yet, in the order their uploads ended
VARIABLES inventory, disk, blobs, unlinking, uploads, failures, req, res, freed,
          inflight

vars == <<inventory, disk, blobs, unlinking, uploads, failures, req, res, freed,
          inflight>>

(* ---------------------------- bounds ----------------------------------- *)

MaxId == 2
MaxUploads == 2
MaxNotes == 2
MaxFailures == 1
MaxInflight == 2

(* ------------------------- JavaScript values --------------------------- *)

Undefined == <<"undefined">>
Null == <<"null">>

Falsy(v) == v = Undefined \/ v = Null \/ v = <<>>

Whitespace == {" ", "\n", "\t"}

RECURSIVE TrimStart(_)
TrimStart(s) ==
  IF s # <<>> /\ Head(s) \in Whitespace THEN TrimStart(Tail(s)) ELSE s

RECURSIVE TrimEnd(_)
TrimEnd(s) ==
  IF s # <<>> /\ s[Len(s)] \in Whitespace
  THEN TrimEnd(SubSeq(s, 1, Len(s) - 1)) ELSE s

trim(s) == TrimEnd(TrimStart(s))

Digits == <<"0", "1", "2", "3", "4", "5", "6", "7", "8", "9">>

DigitValue(c) == (CHOOSE k \in 1..10 : Digits[k] = c) - 1

RECURSIVE Number(_)
Number(s) ==
  IF s = <<>> THEN 0
  ELSE 10 * Number(SubSeq(s, 1, Len(s) - 1)) + DigitValue(s[Len(s)])

RECURSIVE String(_)
String(n) ==
  IF n < 10 THEN <<Digits[n + 1]>>
  ELSE String(n \div 10) \o <<Digits[(n % 10) + 1]>>

Math_max(a, b) == IF a >= b THEN a ELSE b

(* ---------------------- persistence (lines 33-44) ---------------------- *)

\* inventory.json: absent, not parseable, or the text of a JSON array
Missing == [state |-> "missing", doc |-> <<>>]
Malformed == [state |-> "malformed", doc |-> <<>>]
Document(doc) == [state |-> "json", doc |-> doc]

ItemKeys == <<"id", "inventory_name", "description", "photoFilename">>

\* the derived photo_url written in place of the photo file name
StringifyItemWithUrl(item) ==
  <<<<"id", item.id>>, <<"inventory_name", item.inventory_name>>,
    <<"description", item.description>>,
    <<"photo_url", item.photoFilename>>>>

\* JSON.stringify of one item: the own properties in insertion order, a
\* property whose value is undefined is left out, null is written as null.
StringifyItem(item) ==
  LET keep(k) == item[k] # Undefined
      RECURSIVE walk(_)
      walk(i) == IF i > Len(ItemKeys) THEN <<>>
                 ELSE (IF keep(ItemKeys[i])
                       THEN <<<<ItemKeys[i], item[ItemKeys[i]]>>>>
                       ELSE <<>>) \o walk(i + 1)
  IN walk(1)

JSON_stringify(items) == [i \in 1..Len(items) |-> StringifyItem(items[i])]

\* JSON.parse of one object: a property that is not written reads undefined.
ParseItem(obj) ==
  [k \in {ItemKeys[i] : i \in 1..Len(ItemKeys)} |->
     IF \E j \in 1..Len(obj) : obj[j][1] = k
     THEN obj[CHOOSE j \in 1..Len(obj) : obj[j][1] = k][2]
     ELSE Undefined]

JSON_parse(doc) == [i \in 1..Len(doc) |-> ParseItem(doc[i])]

\* a document whose text is valid JSON for a value that is not an array,
\* such as {}
ObjectDocument == [state |-> "object", doc |-> <<>>]

\* what JSON.parse returns for such a document: a value with none of the
\* methods of an array
NotAnArray == <<[object |-> "Object"]>>
IsArray(value) == value # NotAnArray

\* try { return JSON.parse(fs.readFileSync(DB_FILE)) } catch { return [] }:
\* whatever parses is returned as it is
loadInventory(file) ==
  IF file.state = "json" THEN JSON_parse(file.doc)
  ELSE IF file.state = "object" THEN NotAnArray
  ELSE <<>>

\* fs.writeFileSync either writes the whole document or throws; a throw
\* leaves the old document or a truncated one.
saveInventory(old, items, ok) ==
  IF ok THEN {Document(JSON_stringify(items))} ELSE {old, Malformed}

(* ---------------------- the collection (lines 46-51) ------------------- *)

RECURSIVE ReduceMax(_, _)
ReduceMax(items, max) ==
  IF items = <<>> THEN max
  ELSE ReduceMax(Tail(items), Math_max(max, Number(Head(items).id)))

\* the id taken from the number of items instead of the largest id
generateIdByCount(items) == String(Len(items) + 1)

generateId(items) == String(ReduceMax(items, 0) + 1)

\* a request without id taken to match any item
findIndexAnyWhenMissing(items, id) ==
  IF items # <<>> /\ id = Undefined THEN 1
  ELSE IF \E i \in 1..Len(items) : items[i].id = id
  THEN CHOOSE i \in 1..Len(items) : items[i].id = id
  ELSE 0

\* ids compared as numbers: "01" finds the item "1"
findIndexNumeric(items, id) ==
  IF id # Undefined /\ \E i \in 1..Len(items) : Number(items[i].id) = Number(id)
  THEN CHOOSE i \in 1..Len(items) : Number(items[i].id) = Number(id)
  ELSE 0

\* Array.prototype.findIndex with (i) => i.id === id, 1-based, 0 for -1
findIndex(items, id) ==
  IF \E i \in 1..Len(items) : items[i].id = id
  THEN CHOOSE i \in 1..Len(items) :
         items[i].id = id /\ \A j \in 1..(i - 1) : items[j].id # id
  ELSE 0

\* inventory.unshift(item): the new item put first
unshift(items, item) == <<item>> \o items

\* the new item written over the last one
pushOverLast(items, item) ==
  IF items = <<>> THEN <<item>> ELSE [items EXCEPT ![Len(items)] = item]

\* inventory.push(item) (line 290)
push(items, item) == Append(items, item)

\* splice(index, 0): nothing is taken out
spliceNothing(items, index) == items

splice(items, index) ==
  SubSeq(items, 1, index - 1) \o SubSeq(items, index + 1, Len(items))

(* ------------------------ requests and responses ----------------------- *)

Hosts == {"h1"}

Methods == {"GET", "POST", "PUT", "DELETE", "PATCH"}

Routes == {"/register", "/inventory", "/inventory/:id",
           "/inventory/:id/photo", "/RegisterForm.html", "/SearchForm.html",
           "/search", "/other"}

\* the ids a client sends: the ids the service gives out, and "01"
ReqIds == {String(n) : n \in 1..MaxId} \cup {<<"0", "1">>}

Request(method, route, id, name, description, has_photo, file, host) ==
  [method |-> method, route |-> route, id |-> id, inventory_name |-> name,
   description |-> description, has_photo |-> has_photo, file |-> file,
   host |-> host]

NoRequest ==
  Request("none", "none", Undefined, Undefined, Undefined, Undefined,
          Undefined, "none")

Response(status, body) == [status |-> status, body |-> body]

NoResponse == Response(0, [text |-> "none"])

\* a throw out of a handler reaches the default error handler of express
InternalError == Response(500, [text |-> "Internal Server Error"])

\* multer names each stored file with fresh random bytes
\* every upload stored under one and the same name
FileNameShared(n) == <<"file">>

FileName(n) == <<"file">> \o String(n)

photoUrlOf(r, id) ==
  <<"http", "://", r.host, "/inventory/">> \o id \o <<"/photo">>

\* a photo URL given to every item, photo or not
photoUrlAlways(r, item) == photoUrlOf(r, item.id)

\* item.photoFilename ? `${req.protocol}://${req.get('host')}/...` : null
photoUrl(r, item) ==
  IF Falsy(item.photoFilename) THEN Null ELSE photoUrlOf(r, item.id)

ItemDTO(r, item) ==
  [id |-> item.id, inventory_name |-> item.inventory_name,
   description |-> item.description, photo_url |-> photoUrl(r, item)]

\* the note appended without its line break
PhotoNoteSameLine(url) == <<"Photo: ">> \o url

PhotoNote(url) == <<"\nPhoto: ">> \o url

\* the note written once only: a description that has one is left alone
annotateOnce(description, url) ==
  IF \E i \in 1..Len(description) : description[i] = "\nPhoto: "
  THEN description ELSE description \o PhotoNote(url)

\* description = `${description}\nPhoto: ${photoUrl}` (line 465)
annotate(description, url) == description \o PhotoNote(url)

NoteCount(s) == Cardinality({i \in 1..Len(s) : s[i] = "\nPhoto: "})

(* ------------------ method guard (lines 263-270, 272-449) -------------- *)

\* the search route opened to GET as well
SearchMethodsWithGet == {"GET", "POST"}

SearchMethods == {"POST"}

\* no route guarded: every method falls through to the route handlers
AllowedMethodsUnguarded(route) == Methods

AllowedMethods(route) ==
  CASE route = "/register" -> {"POST"}
    [] route = "/inventory" -> {"GET"}
    [] route = "/inventory/:id" -> {"GET", "PUT", "DELETE"}
    [] route = "/inventory/:id/photo" -> {"GET", "PUT"}
    [] route = "/RegisterForm.html" -> {"GET"}
    [] route = "/SearchForm.html" -> {"GET"}
    [] route = "/search" -> SearchMethods
    [] OTHER -> Methods

\* the handler registered for a method and a path, "none" when there is none
HandlerFor(method, route) ==
  CASE method = "POST" /\ route = "/register" -> "register"
    [] method = "GET" /\ route = "/inventory" -> "list"
    [] method = "GET" /\ route = "/inventory/:id" -> "get"
    [] method = "PUT" /\ route = "/inventory/:id" -> "update"
    [] method = "DELETE" /\ route = "/inventory/:id" -> "delete"
    [] method = "GET" /\ route = "/inventory/:id/photo" -> "getPhoto"
    [] method = "PUT" /\ route = "/inventory/:id/photo" -> "putPhoto"
    [] method = "GET" /\ route = "/RegisterForm.html" -> "form"
    [] method = "GET" /\ route = "/SearchForm.html" -> "form"
    [] method = "POST" /\ route = "/search" -> "search"
    [] OTHER -> "none"

\* one request at a time: the next one is taken when the last response is out
Idle == req = NoRequest /\ res = NoResponse

Dispatch(r, handler) ==
  /\ Idle
  /\ r.method \in AllowedMethods(r.route)
  /\ HandlerFor(r.method, r.route) = handler

\* history: the id of the item deleted last, while no item was created
\* after it, and whether the request being answered was given that id
NothingFreed == [id |-> Undefined, reused |-> FALSE]

(* ------------------------------- Init ---------------------------------- *)

Init ==
  /\ disk = Missing
  /\ inventory = loadInventory(Missing)
  /\ blobs = {}
  /\ unlinking = {}
  /\ uploads = 0
  /\ failures = 0
  /\ req = NoRequest
  /\ res = NoResponse
  /\ freed = NothingFreed
  /\ inflight = <<>>

(* ------------------------------ inputs --------------------------------- *)

\* the outcomes of fs.writeFileSync a specification lets happen
WriteSucceeds == {TRUE}
WriteMayFail == BOOLEAN

RegisterNames == {Undefined, <<>>, <<" ">>, <<"W">>}
RegisterDescriptions == {Undefined, <<"d">>}
UpdateNames == {Undefined, <<>>}
UpdateDescriptions == {Undefined, <<>>}
PhotoFlags == {Undefined, <<>>, <<"on">>}

\* the name checked without trimming it
nameMissingUntrimmed(name) == Falsy(name)

\* !inventory_name || inventory_name.trim() === '' (line 276)
nameMissing(name) == Falsy(name) \/ trim(name) = <<>>

\* a field taken as supplied only when it is truthy
suppliedTruthy(v) == ~Falsy(v)

\* inventory_name !== undefined, description !== undefined (lines 350, 353)
supplied(v) == v # Undefined

\* the photo served without looking for its file
existsSyncSkipped(f) == TRUE

\* fs.existsSync(photoPath) (line 397)
existsSync(f) == f \in blobs

\* the file of an item left in the photo directory
unlinkSkipped(pending, photoFilename) == pending

\* if (photoFilename) fs.promises.unlink(...).catch(() => {}) (lines 379-382,
\* 416-419): the deletion is started and the handler goes on without
\* waiting for it; pending holds the files whose deletion is under way
unlink(pending, photoFilename) ==
  IF Falsy(photoFilename) THEN pending ELSE pending \cup {photoFilename}

\* upload.single('photo'): the file of the request, when it has one, is
\* written into the photo directory before the handler runs
multerFile(photo) == IF photo THEN FileName(uploads + 1) ELSE Undefined

multer(photo) ==
  /\ photo => uploads < MaxUploads
  /\ uploads' = IF photo THEN uploads + 1 ELSE uploads
  /\ blobs' = IF photo THEN blobs \cup {multerFile(photo)} ELSE blobs

\* the throw of writeFileSync caught and the success answered all the same
SaveAndRespondAbsorbed(items, ok, response) ==
  /\ ~ok => failures < MaxFailures
  /\ failures' = IF ok THEN failures ELSE failures + 1
  /\ inventory' = items
  /\ disk' \in saveInventory(disk, items, ok)
  /\ res' = response

\* saveInventory(inventory) and the response that follows it; a throw of
\* writeFileSync ends the request in the error handler
SaveAndRespond(items, ok, response) ==
  /\ ~ok => failures < MaxFailures
  /\ failures' = IF ok THEN failures ELSE failures + 1
  /\ inventory' = items
  /\ disk' \in saveInventory(disk, items, ok)
  /\ res' = IF ok THEN response ELSE InternalError

(* ---------------------- POST /register (272-303) ----------------------- *)

\* the handler of POST /register (lines 273-303), run on a request whose
\* body multer has parsed
RegisterHandler(r, ok) ==
  /\ req' = r
  /\ IF nameMissing(r.inventory_name)
     THEN /\ ok
          /\ res' = Response(400, [error |-> "inventory_name is required"])
          /\ UNCHANGED <<inventory, disk, failures, unlinking, freed>>
     ELSE LET id == generateId(inventory)
              photoFilename == IF r.file # Undefined THEN r.file ELSE Null
              item == [id |-> id, inventory_name |-> r.inventory_name,
                       description |-> IF Falsy(r.description) THEN <<>>
                                       ELSE r.description,
                       photoFilename |-> photoFilename]
          IN /\ Number(id) <= MaxId
             /\ SaveAndRespond(push(inventory, item), ok,
                               Response(201, ItemDTO(r, item)))
             /\ freed' = [id |-> Undefined, reused |-> freed.id = id]
             /\ UNCHANGED unlinking

\* a request to POST /register whose upload and handler follow each other
\* with nothing in between
Register(writes) ==
  \E name \in RegisterNames, description \in RegisterDescriptions,
     photo \in BOOLEAN, host \in Hosts, ok \in writes :
    LET r == Request("POST", "/register", Undefined, name, description,
                     Undefined, multerFile(photo), host)
    IN /\ Dispatch(r, "register")
       /\ multer(photo)
       /\ RegisterHandler(r, ok)
       /\ UNCHANGED inflight

(* ----------------------- GET /inventory (305-321) ---------------------- *)

ListInventory ==
  \E host \in Hosts :
    LET r == Request("GET", "/inventory", Undefined, Undefined, Undefined,
                     Undefined, Undefined, host)
    IN /\ Dispatch(r, "list")
       /\ req' = r
       /\ res' = Response(200, [items |-> [i \in 1..Len(inventory) |->
                                            ItemDTO(r, inventory[i])]])
       /\ UNCHANGED <<inventory, disk, failures, blobs, unlinking, uploads, freed,
                      inflight>>

(* --------------------- GET /inventory/:id (323-340) -------------------- *)

GetItem ==
  \E id \in ReqIds, host \in Hosts :
    LET r == Request("GET", "/inventory/:id", id, Undefined, Undefined,
                     Undefined, Undefined, host)
        index == findIndex(inventory, r.id)
    IN /\ Dispatch(r, "get")
       /\ req' = r
       /\ res' = IF index = 0 THEN Response(404, [error |-> "Not found"])
                 ELSE Response(200, ItemDTO(r, inventory[index]))
       /\ UNCHANGED <<inventory, disk, failures, blobs, unlinking, uploads, freed,
                      inflight>>

(* --------------------- PUT /inventory/:id (342-369) -------------------- *)

UpdateItem(writes) ==
  \E id \in ReqIds, name \in UpdateNames, description \in UpdateDescriptions,
     host \in Hosts, ok \in writes :
    LET r == Request("PUT", "/inventory/:id", id, name, description,
                     Undefined, Undefined, host)
        index == findIndex(inventory, r.id)
    IN /\ Dispatch(r, "update")
       /\ req' = r
       /\ UNCHANGED <<blobs, unlinking, uploads, freed, inflight>>
       /\ IF index = 0
          THEN /\ ok
               /\ res' = Response(404, [error |-> "Not found"])
               /\ UNCHANGED <<inventory, disk, failures>>
          ELSE LET old == inventory[index]
                   item == [old EXCEPT
                     !.inventory_name =
                        IF supplied(name) THEN name ELSE @,
                     !.description =
                        IF supplied(description) THEN description ELSE @]
               IN SaveAndRespond([inventory EXCEPT ![index] = item], ok,
                                 Response(200, ItemDTO(r, item)))

(* -------------------- DELETE /inventory/:id (371-387) ------------------ *)

DeleteItem(writes) ==
  \E id \in ReqIds, host \in Hosts, ok \in writes :
    LET r == Request("DELETE", "/inventory/:id", id, Undefined, Undefined,
                     Undefined, Undefined, host)
        index == findIndex(inventory, r.id)
    IN /\ Dispatch(r, "delete")
       /\ req' = r
       /\ UNCHANGED <<blobs, uploads, inflight>>
       /\ IF index = 0
          THEN /\ ok
               /\ res' = Response(404, [error |-> "Not found"])
               /\ UNCHANGED <<inventory, disk, failures, unlinking, freed>>
          ELSE LET removed == inventory[index]
               IN /\ freed' = [id |-> removed.id, reused |-> FALSE]
                  /\ unlinking' = unlink(unlinking, removed.photoFilename)
                  /\ SaveAndRespond(splice(inventory, index), ok,
                                    Response(200, [message |-> "Deleted"]))

(* ------------------ GET /inventory/:id/photo (389-404) ----------------- *)

GetPhoto ==
  \E id \in ReqIds, host \in Hosts :
    LET r == Request("GET", "/inventory/:id/photo", id, Undefined, Undefined,
                     Undefined, Undefined, host)
        index == findIndex(inventory, r.id)
    IN /\ Dispatch(r, "getPhoto")
       /\ req' = r
       /\ res' = IF index = 0 \/ Falsy(inventory[index].photoFilename)
                 THEN Response(404, [text |-> "Not found"])
                 ELSE IF ~existsSync(inventory[index].photoFilename)
                 THEN Response(404, [text |-> "Not found"])
                 ELSE Response(200, [file |-> inventory[index].photoFilename])
       /\ UNCHANGED <<inventory, disk, failures, blobs, unlinking, uploads, freed,
                      inflight>>

(* ------------------ PUT /inventory/:id/photo (406-431) ----------------- *)

\* the handler of PUT /inventory/:id/photo (lines 406-431), run on a
\* request whose body multer has parsed
PutPhotoHandler(r, ok) ==
  LET index == findIndex(inventory, r.id)
  IN /\ req' = r
     /\ UNCHANGED freed
     /\ IF index = 0
        THEN /\ ok
             /\ res' = Response(404, [error |-> "Not found"])
             /\ UNCHANGED <<inventory, disk, failures, unlinking>>
        ELSE IF r.file = Undefined
        THEN /\ ok
             /\ res' = Response(400, [error |-> "photo file is required"])
             /\ UNCHANGED <<inventory, disk, failures, unlinking>>
        ELSE LET old == inventory[index]
                 item == [old EXCEPT !.photoFilename = r.file]
             IN /\ unlinking' = unlink(unlinking, old.photoFilename)
                /\ SaveAndRespond([inventory EXCEPT ![index] = item], ok,
                     Response(200, [id |-> item.id,
                                    photo_url |-> photoUrlOf(r, item.id),
                                    message |-> "Photo updated"]))

PutPhoto(writes) ==
  \E id \in ReqIds, photo \in BOOLEAN, host \in Hosts, ok \in writes :
    LET r == Request("PUT", "/inventory/:id/photo", id, Undefined, Undefined,
                     Undefined, multerFile(photo), host)
    IN /\ Dispatch(r, "putPhoto")
       /\ multer(photo)
       /\ PutPhotoHandler(r, ok)
       /\ UNCHANGED inflight

(* ------------- GET /RegisterForm.html, /SearchForm.html (433-447) ------ *)

ServeForm ==
  \E route \in {"/RegisterForm.html", "/SearchForm.html"}, host \in Hosts :
    LET r == Request("GET", route, Undefined, Undefined, Undefined,
                     Undefined, Undefined, host)
    IN /\ Dispatch(r, "form")
       /\ req' = r
       /\ res' = Response(200, [page |-> route])
       /\ UNCHANGED <<inventory, disk, failures, blobs, unlinking, uploads, freed,
                      inflight>>

(* ------------------------ POST /search (449-476) ----------------------- *)

Search(writes) ==
  \E id \in ReqIds \cup {Undefined}, has_photo \in PhotoFlags,
     host \in Hosts, ok \in writes :
    LET r == Request("POST", "/search", id, Undefined, Undefined,
                     has_photo, Undefined, host)
        index == findIndex(inventory, r.id)
    IN /\ Dispatch(r, "search")
       /\ req' = r
       /\ UNCHANGED <<blobs, unlinking, uploads, freed, inflight>>
       /\ IF index = 0
          THEN /\ ok
               /\ res' = Response(404, [error |-> "Not found"])
               /\ UNCHANGED <<inventory, disk, failures>>
          ELSE LET item == inventory[index]
                   url == photoUrl(r, item)
               IN IF ~Falsy(has_photo) /\ ~Falsy(url)
                  THEN LET description == annotate(item.description, url)
                           noted == [item EXCEPT !.description = description]
                       IN /\ NoteCount(item.description) < MaxNotes
                          /\ SaveAndRespond(
                               [inventory EXCEPT ![index] = noted], ok,
                               Response(200, ItemDTO(r, noted)))
                  ELSE /\ ok
                       /\ res' = Response(200, ItemDTO(r, item))
                       /\ UNCHANGED <<inventory, disk, failures>>

(* ------------- methodGuard (263-270) and the fallback (478-480) -------- *)

PathId(route) ==
  IF route \in {"/inventory/:id", "/inventory/:id/photo", "/search"}
  THEN {String(1)} ELSE {Undefined}

MethodNotAllowed ==
  \E route \in Routes, method \in Methods, host \in Hosts :
    \E id \in PathId(route) :
      LET r == Request(method, route, id, Undefined, Undefined, Undefined,
                       Undefined, host)
      IN /\ Idle
         /\ r.method \notin AllowedMethods(r.route)
         /\ req' = r
         /\ res' = Response(405, [text |-> "Method not allowed"])
         /\ UNCHANGED <<inventory, disk, failures, blobs, unlinking, uploads, freed,
                      inflight>>

NotFound ==
  \E route \in Routes, method \in Methods, host \in Hosts :
    \E id \in PathId(route) :
      LET r == Request(method, route, id, Undefined, Undefined, Undefined,
                       Undefined, host)
      IN /\ Dispatch(r, "none")
         /\ req' = r
         /\ res' = Response(404, [text |-> "Not found"])
         /\ UNCHANGED <<inventory, disk, failures, blobs, unlinking, uploads, freed,
                      inflight>>

(* --------------------------- the environment --------------------------- *)

\* fs.promises.unlink(...).catch(() => {}) settles after the handler
\* returned; a failure is swallowed
UnlinkSettles ==
  \E f \in unlinking :
    /\ Idle
    /\ unlinking' = unlinking \ {f}
    /\ blobs' = blobs \ {f}
    /\ UNCHANGED <<inventory, disk, failures, uploads, req, res, freed, inflight>>

\* a photo is removed from the directory by something else
BlobLost ==
  \E f \in blobs :
    /\ Idle
    /\ blobs' = blobs \ {f}
    /\ UNCHANGED <<inventory, disk, failures, unlinking, uploads, req, res,
                   freed, inflight>>

\* the process is started again on the same cache directory (line 46)
Restart ==
  /\ Idle
  /\ inventory' = loadInventory(disk)
  /\ unlinking' = {}
  /\ inflight' = <<>>
  /\ UNCHANGED <<disk, blobs, uploads, failures, req, res, freed>>

\* res.json / res.send / res.sendFile: the response goes out and the
\* request is over
Respond ==
  /\ ~Idle
  /\ req' = NoRequest
  /\ res' = NoResponse
  /\ freed' = [freed EXCEPT !.reused = FALSE]
  /\ UNCHANGED <<inventory, disk, blobs, unlinking, uploads, failures, inflight>>

Next ==
  \/ Register(WriteSucceeds)
  \/ ListInventory
  \/ GetItem
  \/ UpdateItem(WriteSucceeds)
  \/ DeleteItem(WriteSucceeds)
  \/ GetPhoto
  \/ PutPhoto(WriteSucceeds)
  \/ ServeForm
  \/ Search(WriteSucceeds)
  \/ MethodNotAllowed
  \/ NotFound
  \/ UnlinkSettles
  \/ BlobLost
  \/ Restart
  \/ Respond

Spec == Init /\ [][Next]_vars

\* the same service on a disk whose writes can fail
NextFailing ==
  \/ Register(WriteMayFail)
  \/ UpdateItem(WriteMayFail)
  \/ DeleteItem(WriteMayFail)
  \/ PutPhoto(WriteMayFail)
  \/ Search(WriteMayFail)
  \/ ListInventory
  \/ GetItem
  \/ GetPhoto
  \/ UnlinkSettles
  \/ BlobLost
  \/ Restart
  \/ Respond

SpecFailing == Init /\ [][NextFailing]_vars

(* ------------- requests whose uploads overlap in time ------------------ *)

ConcurrentNames == {<<>>, <<"W">>}

\* upload.single('photo') reads the multipart body of a request while other
\* requests are served; when it is done the file, if any, is in the photo
\* directory and the request waits for its handler
Upload ==
  \E route \in {"/register", "/inventory/:id/photo"}, photo \in BOOLEAN,
     host \in Hosts :
    \E id \in IF route = "/register" THEN {Undefined}
              ELSE {String(n) : n \in 1..MaxId},
       name \in IF route = "/register" THEN ConcurrentNames ELSE {Undefined} :
      LET method == IF route = "/register" THEN "POST" ELSE "PUT"
          r == Request(method, route, id, name, Undefined, Undefined,
                       multerFile(photo), host)
      IN /\ Idle
         /\ method \in AllowedMethods(route)
         /\ Len(inflight) < MaxInflight
         /\ multer(photo)
         /\ inflight' = Append(inflight, r)
         /\ UNCHANGED <<inventory, disk, failures, unlinking, req, res, freed>>

\* the handler of a waiting request runs from its first line to its
\* response: it is synchronous code on the one thread of the process
Handle ==
  \E i \in 1..Len(inflight) :
    LET r == inflight[i]
    IN /\ Idle
       /\ inflight' = SubSeq(inflight, 1, i - 1)
                        \o SubSeq(inflight, i + 1, Len(inflight))
       /\ UNCHANGED <<blobs, uploads>>
       /\ IF r.route = "/register" THEN RegisterHandler(r, TRUE)
          ELSE PutPhotoHandler(r, TRUE)

NextConcurrent ==
  \/ Upload
  \/ Handle
  \/ UpdateItem(WriteSucceeds)
  \/ DeleteItem(WriteSucceeds)
  \/ UnlinkSettles
  \/ Respond

SpecConcurrent == Init /\ [][NextConcurrent]_vars

(* ---------- the service started on whatever inventory.json holds ------- *)

\* what the cache directory can hold when the process starts
StartDocuments == {Missing, Malformed, ObjectDocument, Document(<<>>)}

InitStartup ==
  /\ disk \in StartDocuments
  /\ inventory = loadInventory(disk)
  /\ blobs = {}
  /\ unlinking = {}
  /\ uploads = 0
  /\ failures = 0
  /\ req = NoRequest
  /\ res = NoResponse
  /\ freed = NothingFreed
  /\ inflight = <<>>

\* a handler that calls inventory.reduce, .map, .find or .findIndex on a
\* value that has no such method throws a TypeError, which Express answers
\* with 500; multer has stored the file by then, and POST /register has
\* checked the name
TypeErrorThrown ==
  \E route \in Routes, method \in Methods, photo \in BOOLEAN, host \in Hosts :
    \E id \in PathId(route),
       name \in IF route = "/register" THEN RegisterNames ELSE {Undefined} :
      LET handler == HandlerFor(method, route)
          r == Request(method, route, id, name, Undefined, Undefined,
                       multerFile(photo), host)
      IN /\ ~IsArray(inventory)
         /\ Dispatch(r, handler)
         /\ handler \in {"register", "list", "get", "update", "delete",
                         "getPhoto", "putPhoto", "search"}
         /\ photo => handler \in {"register", "putPhoto"}
         /\ multer(photo)
         /\ req' = r
         /\ res' = IF handler = "register" /\ nameMissing(name)
                   THEN Response(400, [error |-> "inventory_name is required"])
                   ELSE InternalError
         /\ UNCHANGED <<inventory, disk, failures, unlinking, freed, inflight>>

NextStartup ==
  \/ IsArray(inventory) /\ Register(WriteSucceeds)
  \/ IsArray(inventory) /\ ListInventory
  \/ IsArray(inventory) /\ GetItem
  \/ IsArray(inventory) /\ UpdateItem(WriteSucceeds)
  \/ IsArray(inventory) /\ DeleteItem(WriteSucceeds)
  \/ IsArray(inventory) /\ GetPhoto
  \/ IsArray(inventory) /\ PutPhoto(WriteSucceeds)
  \/ IsArray(inventory) /\ Search(WriteSucceeds)
  \/ TypeErrorThrown
  \/ ServeForm
  \/ MethodNotAllowed
  \/ NotFound
  \/ UnlinkSettles
  \/ BlobLost
  \/ Restart
  \/ Respond

SpecStartup == InitStartup /\ [][NextStartup]_vars

(* ======================================================================= *)
(*                               properties                                *)
(* ======================================================================= *)

\* what the request just handled was
Handled(method, route) == req.method = method /\ req.route = route
Handling(method, route) ==
  Idle /\ req'.method = method /\ req'.route = route

Ids(items) == {items[i].id : i \in 1..Len(items)}
Known(items, id) == id \in Ids(items)
IndexOf(items, id) == CHOOSE i \in 1..Len(items) : items[i].id = id

NumericIds(items) == {Number(id) : id \in Ids(items)}
MaxNumericId(items) ==
  IF items = <<>> THEN 0
  ELSE CHOOSE m \in NumericIds(items) : \A n \in NumericIds(items) : n <= m

Blank(s) == \A i \in 1..Len(s) : s[i] \in Whitespace

UniqueIds(items) ==
  \A i, j \in 1..Len(items) : items[i].id = items[j].id => i = j

\* C1: the id given to a created item is the decimal string of the largest
\* numeric id in the collection at that moment plus one (0 for the empty
\* collection), and the item is appended under that id; the id of an item
\* deleted before can so be given again.
C1_IdIsMaxPlusOne ==
  [][(Handling("POST", "/register") /\ res'.status = 201) =>
       /\ res'.body.id = String(MaxNumericId(inventory) + 1)
       /\ Len(inventory') = Len(inventory) + 1
       /\ inventory'[Len(inventory')].id = res'.body.id]_vars

C1_Witness ==
  /\ Handled("POST", "/register")
  /\ res.status = 201
  /\ freed.reused
  /\ res.body.id = String(MaxId)

\* C2 as stated: a create with any non-empty name answers 201 with a
\* positive id that no other item has.
C2_Original ==
  (Handled("POST", "/register") /\ ~Falsy(req.inventory_name)) =>
     /\ res.status = 201
     /\ Number(res.body.id) > 0
     /\ UniqueIds(inventory)

\* C2 (amended): while the document can be written, a create is rejected
\* with 400 exactly when the name is absent, empty or whitespace only, and
\* otherwise answers 201; a 201 carries the decimal string of a positive
\* integer that no item already in the collection has, and no two items of
\* the collection ever share an id.
C2_CreateGivesFreshId ==
  /\ UniqueIds(inventory)
  /\ Handled("POST", "/register") =>
       /\ res.status = 400 <=>
            (Falsy(req.inventory_name) \/ Blank(req.inventory_name))
       /\ res.status \in {201, 400}
       /\ res.status = 201 =>
            /\ Number(res.body.id) > 0
            /\ String(Number(res.body.id)) = res.body.id
            /\ inventory # <<>>
            /\ inventory[Len(inventory)].id = res.body.id
            /\ ~Known(SubSeq(inventory, 1, Len(inventory) - 1), res.body.id)

C2_Witness ==
  /\ Handled("POST", "/register")
  /\ res.status = 201
  /\ Len(inventory) = 2
  /\ req.inventory_name = <<"W">>

\* a request that changed the collection and was answered with success
Annotating ==
  /\ Handled("POST", "/search")
  /\ ~Falsy(req.has_photo)
  /\ res.status = 200
  /\ res.body.photo_url # Null

MutationSucceeded ==
  \/ Handled("POST", "/register") /\ res.status = 201
  \/ Handled("PUT", "/inventory/:id") /\ res.status = 200
  \/ Handled("DELETE", "/inventory/:id") /\ res.status = 200
  \/ Handled("PUT", "/inventory/:id/photo") /\ res.status = 200
  \/ Annotating

\* C3: when a create, update, delete, photo replacement or annotating
\* search has been answered with success, the document on disk, loaded,
\* is the collection in memory, item for item and field for field; this
\* although a write of the document can fail.
C3_SuccessMeansPersisted ==
  MutationSucceeded => loadInventory(disk) = inventory

C3_Witness ==
  /\ MutationSucceeded
  /\ failures > 0
  /\ \E i \in 1..Len(inventory) : inventory[i].photoFilename # Null

\* C4 as stated: a GET on /search is never answered 405 and finds a known
\* id like a POST does.
C4_Original ==
  Handled("GET", "/search") =>
     /\ res.status # 405
     /\ Known(inventory, req.id) => res.status = 200

\* C4 (amended): the search is reachable by POST only; a POST with a known
\* id in the form body answers 200 with that item, and any other method on
\* /search, GET with the id in the query string included, is answered 405
\* and changes nothing.
C4_SearchIsPostOnly ==
  [][(Idle /\ req'.route = "/search") =>
       IF req'.method = "POST"
       THEN Known(inventory, req'.id) =>
              res'.status = 200 /\ res'.body.id = req'.id
       ELSE /\ res'.status = 405
            /\ UNCHANGED <<inventory, disk, blobs, unlinking>>]_vars

C4_Witness ==
  /\ Handled("GET", "/search")
  /\ res.status = 405
  /\ Known(inventory, req.id)

\* C5 as stated: a search without id is answered 400.
C5_Original ==
  (Handled("POST", "/search") /\ req.id = Undefined) => res.status = 400

\* C5 (amended): a search that carries no id is answered 404, the same as
\* a search whose id matches no item; in both cases the collection and
\* the document on disk stay as they are.
C5_SearchWithoutIdIsNotFound ==
  [][(Handling("POST", "/search") /\ ~Known(inventory, req'.id)) =>
       /\ res'.status = 404
       /\ UNCHANGED <<inventory, disk>>]_vars

C5_Witness ==
  /\ Handled("POST", "/search")
  /\ req.id = Undefined
  /\ res.status = 404
  /\ inventory # <<>>

ItemsOf(response) ==
  IF "items" \in DOMAIN response.body
  THEN {response.body.items[i] : i \in 1..Len(response.body.items)}
  ELSE IF "photo_url" \in DOMAIN response.body /\ response.status \in {200, 201}
  THEN {response.body}
  ELSE {}

StoredItem(id) == inventory[IndexOf(inventory, id)]

\* C7 as stated: a response carries a photo_url only for an item whose
\* photo file is in the photo directory at that moment.
C7_Original ==
  \A dto \in ItemsOf(res) :
     dto.photo_url # Null => StoredItem(dto.id).photoFilename \in blobs

\* C7 (amended): in every item-bearing response photo_url is non-null
\* exactly when the photo reference of the item is set, and is then the URL
\* of the photo route of that id; whether the file is still in the photo
\* directory is not looked at.
C7_PhotoUrlFollowsReference ==
  \A dto \in ItemsOf(res) :
     /\ Known(inventory, dto.id)
     /\ dto.photo_url # Null <=> StoredItem(dto.id).photoFilename # Null
     /\ dto.photo_url # Null =>
          dto.photo_url =
            <<"http", "://", req.host, "/inventory/">> \o dto.id \o <<"/photo">>

C7_Witness ==
  /\ Handled("GET", "/inventory/:id")
  /\ res.status = 200
  /\ res.body.photo_url # Null
  /\ StoredItem(req.id).photoFilename \notin blobs

\* C8: a photo request is answered 404 exactly when no item has the id,
\* the item has no photo reference, or the referenced file is not in the
\* photo directory; otherwise it is answered 200 with the file the item
\* references; it changes neither the collection, the document nor the
\* photo directory.
C8_PhotoNotFoundCases ==
  [][Handling("GET", "/inventory/:id/photo") =>
       /\ res'.status \in {200, 404}
       /\ res'.status = 404 <=>
            \/ ~Known(inventory, req'.id)
            \/ inventory[IndexOf(inventory, req'.id)].photoFilename = Null
            \/ inventory[IndexOf(inventory, req'.id)].photoFilename
                  \notin blobs
       /\ res'.status = 200 =>
            res'.body.file =
              inventory[IndexOf(inventory, req'.id)].photoFilename
       /\ UNCHANGED <<inventory, disk, blobs, unlinking>>]_vars

C8_Witness ==
  /\ Handled("GET", "/inventory/:id/photo")
  /\ res.status = 404
  /\ Known(inventory, req.id)
  /\ StoredItem(req.id).photoFilename # Null
  /\ StoredItem(req.id).photoFilename \notin blobs

\* C9: a delete of an id that no item has is answered 404 and leaves the
\* collection, the document on disk, the photo directory and the pending
\* file deletions as they were.
C9_DeleteUnknownChangesNothing ==
  [][(Handling("DELETE", "/inventory/:id") /\ ~Known(inventory, req'.id)) =>
       /\ res'.status = 404
       /\ UNCHANGED <<inventory, disk, blobs, unlinking>>]_vars

C9_Witness ==
  /\ Handled("DELETE", "/inventory/:id")
  /\ res.status = 404
  /\ req.id = <<"0", "1">>
  /\ Known(inventory, String(1))
  /\ \E i \in 1..Len(inventory) : inventory[i].photoFilename \in blobs

\* C10: an update of an existing item is answered 200 with the values the
\* item then has; a field that is supplied, the empty string included, is
\* overwritten, a field that is omitted keeps its value; the id and the
\* photo reference of the item and every other item stay as they were, and
\* an update that supplies no field leaves the collection as it was.
C10_UpdateOverwritesSupplied ==
  [][(Handling("PUT", "/inventory/:id") /\ Known(inventory, req'.id)) =>
       LET i == IndexOf(inventory, req'.id)
           old == inventory[i]
           new == inventory'[i]
       IN /\ res'.status = 200
          /\ Len(inventory') = Len(inventory)
          /\ \A j \in 1..Len(inventory) : j # i => inventory'[j] = inventory[j]
          /\ new.id = old.id
          /\ new.photoFilename = old.photoFilename
          /\ new.inventory_name =
               IF req'.inventory_name = Undefined THEN old.inventory_name
               ELSE req'.inventory_name
          /\ new.description =
               IF req'.description = Undefined THEN old.description
               ELSE req'.description
          /\ (req'.inventory_name = Undefined /\ req'.description = Undefined)
               => inventory' = inventory
          /\ res'.body.id = new.id
          /\ res'.body.inventory_name = new.inventory_name
          /\ res'.body.description = new.description]_vars

C10_Witness ==
  /\ Handled("PUT", "/inventory/:id")
  /\ res.status = 200
  /\ req.inventory_name = Undefined
  /\ req.description = <<>>
  /\ res.body.inventory_name = <<"W">>
  /\ res.body.description = <<>>
  /\ Len(inventory) = 2
  /\ \E j \in 1..Len(inventory) : inventory[j].description = <<"d">>

\* C11: a request whose method is not among those registered for a defined
\* route is answered 405, never 404, whether or not the id of its path names
\* an item, and nothing of the collection, the document or the photo
\* directory changes; the fallback 404 is what a path with no route gets.
C11_DisallowedMethodIs405 ==
  [][(Idle /\ req' # NoRequest) =>
       LET registered ==
             [route \in Routes \ {"/other"} |->
                CASE route = "/register" -> {"POST"}
                  [] route = "/inventory" -> {"GET"}
                  [] route = "/inventory/:id" -> {"GET", "PUT", "DELETE"}
                  [] route = "/inventory/:id/photo" -> {"GET", "PUT"}
                  [] route = "/search" -> {"POST"}
                  [] OTHER -> {"GET"}]
       IN /\ (req'.route \in DOMAIN registered
                /\ req'.method \notin registered[req'.route]) =>
               /\ res' = Response(405, [text |-> "Method not allowed"])
               /\ UNCHANGED <<inventory, disk, blobs, unlinking, uploads>>
          /\ req'.route \notin DOMAIN registered =>
               res' = Response(404, [text |-> "Not found"])
          /\ res'.status = 405 =>
               /\ req'.route \in DOMAIN registered
               /\ req'.method \notin registered[req'.route]]_vars

C11_Witness ==
  /\ Handled("PATCH", "/inventory/:id")
  /\ res.status = 405
  /\ Known(inventory, req.id)
  /\ inventory[IndexOf(inventory, req.id)].photoFilename \in blobs

\* C12 as stated: when a photo replacement or a deletion has answered 200,
\* the file the item had before is gone from the photo directory.
C12_Original ==
  [][((Handling("PUT", "/inventory/:id/photo")
         \/ Handling("DELETE", "/inventory/:id")) /\ res'.status = 200) =>
       inventory[IndexOf(inventory, req'.id)].photoFilename \notin blobs']_vars

\* C12 (amended): a photo replacement or a deletion that answers 200 has
\* started the deletion of the file the item had before, and has not waited
\* for it: the photo directory at the response holds what it held before
\* plus the file just uploaded, the old file is among the pending deletions,
\* the item refers to the new file, and a photo request answered 200 serves
\* the file the item then refers to.
C12_DeletionIsStartedNotAwaited ==
  [][/\ (Handling("PUT", "/inventory/:id/photo") /\ res'.status = 200) =>
          LET i == IndexOf(inventory, req'.id)
              old == inventory[i].photoFilename
              new == inventory'[i].photoFilename
          IN /\ new = req'.file
             /\ new \notin blobs
             /\ blobs' = blobs \cup {new}
             /\ unlinking' = IF old \in {Null, Undefined, <<>>} THEN unlinking
                             ELSE unlinking \cup {old}
     /\ (Handling("DELETE", "/inventory/:id") /\ res'.status = 200) =>
          LET old == inventory[IndexOf(inventory, req'.id)].photoFilename
          IN /\ blobs' = blobs
             /\ unlinking' = IF old \in {Null, Undefined, <<>>} THEN unlinking
                             ELSE unlinking \cup {old}
     /\ (Handling("GET", "/inventory/:id/photo") /\ res'.status = 200) =>
          /\ res'.body.file = inventory[IndexOf(inventory, req'.id)].photoFilename
          /\ res'.body.file \in blobs]_vars

C12_Witness ==
  /\ Handled("PUT", "/inventory/:id/photo")
  /\ res.status = 200
  /\ inventory[IndexOf(inventory, req.id)].photoFilename = FileName(2)
  /\ FileName(1) \in unlinking
  /\ FileName(1) \in blobs

\* C13: a create rejected with 400 for its name, and a photo replacement
\* rejected with 404 for its id, have no effect at all: the collection and
\* the document stay as they were, and the photo directory holds no file it
\* did not hold before the request.
C13_RejectedRequestStoresNothing ==
  [][((Handling("POST", "/register") /\ res'.status = 400)
        \/ (Handling("PUT", "/inventory/:id/photo") /\ res'.status = 404)) =>
       /\ UNCHANGED <<inventory, disk>>
       /\ blobs' = blobs]_vars

\* C14: after a start on a document that is missing, unreadable, malformed
\* or not a sequence of items, the service behaves as on an empty
\* collection: while nothing has been written, a list is answered 200 with
\* the empty sequence, and a create with a valid name is answered 201.
C14_BadDocumentStartsEmpty ==
  /\ (Handled("GET", "/inventory") /\ disk.state # "json") =>
        res = Response(200, [items |-> <<>>])
  /\ (Handled("POST", "/register") /\ ~Blank(req.inventory_name)
        /\ ~Falsy(req.inventory_name)) => res.status = 201

\* C15: a deletion answered 200 takes exactly the item of that id out of
\* the collection and leaves every other item with its fields and in its
\* order; a get, an update, a photo request, a photo replacement and a
\* search for an id no item has are answered 404, a list shows the items of
\* the collection in their order, and an id comes (back) into the collection
\* only by a create answered 201 with that id. A create with a name alone on
\* the empty collection answers id "1", description "" and photo_url null,
\* and the collection then holds exactly that item.
C15_DeletedItemIsGone ==
  [][/\ (Handling("DELETE", "/inventory/:id") /\ res'.status = 200) =>
          /\ Known(inventory, req'.id)
          /\ ~Known(inventory', req'.id)
          /\ inventory' = SelectSeq(inventory, LAMBDA item : item.id # req'.id)
     /\ (\/ Handling("GET", "/inventory/:id")
         \/ Handling("PUT", "/inventory/:id")
         \/ Handling("GET", "/inventory/:id/photo")
         \/ Handling("PUT", "/inventory/:id/photo")
         \/ Handling("POST", "/search")) =>
          (~Known(inventory, req'.id) =>
             /\ res'.status = 404
             /\ inventory' = inventory)
     /\ Handling("GET", "/inventory") =>
          /\ res'.status = 200
          /\ Len(res'.body.items) = Len(inventory)
          /\ \A i \in 1..Len(inventory) :
               /\ res'.body.items[i].id = inventory[i].id
               /\ res'.body.items[i].inventory_name = inventory[i].inventory_name
               /\ res'.body.items[i].description = inventory[i].description
     /\ \A id \in Ids(inventory') \ Ids(inventory) :
          /\ Handling("POST", "/register")
          /\ res'.status = 201
          /\ res'.body.id = id
     /\ (Handling("POST", "/register") /\ res'.status = 201 /\ inventory = <<>>
           /\ req'.description = Undefined /\ req'.file = Undefined) =>
          /\ res'.body = [id |-> <<"1">>, inventory_name |-> req'.inventory_name,
                          description |-> <<>>, photo_url |-> Null]
          /\ Len(inventory') = 1
          /\ inventory'[1].id = <<"1">>]_vars

C15_Witness ==
  /\ Handled("GET", "/inventory/:id")
  /\ res.status = 404
  /\ req.id = <<"1">>
  /\ freed.id = <<"1">>
  /\ Len(inventory) = 1
  /\ inventory[1].id = <<"2">>

\* C16 as stated: whenever the write of the document fails, the request is
\* not answered 2xx and the document differs from what memory holds.
C16_Original ==
  [][failures' # failures =>
       /\ res'.status \notin 200..299
       /\ disk' # Document(JSON_stringify(inventory'))]_vars

\* C16 (amended): a write of the document that fails in a create, update,
\* delete, photo replacement or annotating search is answered 500; the
\* change made in memory stays, the document is not the one of the new
\* collection whenever it agreed with memory before and the request changed
\* the collection (an update that changes no field changes nothing), and a
\* mutating request whose write succeeds leaves the document equal to
\* memory again. A deletion or photo replacement of an item whose file is
\* already gone, so that its unlink fails, is answered 200 and saved.
C16_SaveFailureIsNotAbsorbed ==
  [][/\ failures' # failures =>
          /\ res' = Response(500, [text |-> "Internal Server Error"])
          /\ disk' \in {disk, Malformed}
          /\ (loadInventory(disk) = inventory /\ inventory' # inventory) =>
                disk' # Document(JSON_stringify(inventory'))
          /\ Handling("POST", "/register") =>
               /\ Len(inventory') = Len(inventory) + 1
               /\ inventory'[Len(inventory')].inventory_name = req'.inventory_name
          /\ Handling("DELETE", "/inventory/:id") =>
               inventory' = SelectSeq(inventory, LAMBDA item : item.id # req'.id)
          /\ Handling("PUT", "/inventory/:id/photo") =>
               inventory'[IndexOf(inventory, req'.id)].photoFilename = req'.file
          /\ Handling("PUT", "/inventory/:id") =>
               LET new == inventory'[IndexOf(inventory, req'.id)]
               IN /\ req'.inventory_name # Undefined =>
                       new.inventory_name = req'.inventory_name
                  /\ req'.description # Undefined =>
                       new.description = req'.description
          /\ Handling("POST", "/search") =>
               LET i == IndexOf(inventory, req'.id)
               IN NoteCount(inventory'[i].description)
                    = NoteCount(inventory[i].description) + 1
     /\ (failures' = failures /\ inventory' # inventory /\ req' # NoRequest) =>
          /\ res'.status \in {200, 201}
          /\ disk' = Document(JSON_stringify(inventory'))
     /\ ((Handling("DELETE", "/inventory/:id")
            \/ (Handling("PUT", "/inventory/:id/photo") /\ req'.file # Undefined))
          /\ failures' = failures /\ Known(inventory, req'.id)) =>
          LET old == inventory[IndexOf(inventory, req'.id)].photoFilename
          IN (old # Null /\ old \notin blobs) =>
               /\ res'.status = 200
               /\ old \in unlinking'
               /\ disk' = Document(JSON_stringify(inventory'))]_vars

C16_Witness ==
  /\ Handled("DELETE", "/inventory/:id")
  /\ res.status = 500
  /\ failures = 1
  /\ disk.state = "json"
  /\ Len(inventory) < Len(loadInventory(disk))
  /\ unlinking # {}

\* C17: with requests whose uploads overlap and whose handlers run in any
\* order, every handler is one step on the collection: an upload changes
\* neither collection nor document; a create answered 201 appends one item
\* under an id no item had and keeps every item that was there; a photo
\* replacement answered 200 changes the photo reference of its item alone,
\* an update answered 200 the name and description of its item alone;
\* no two items ever share an id, and after every step the document holds
\* the collection in memory.
C17_HandlersDoNotInterleave ==
  [][/\ UniqueIds(inventory')
     /\ loadInventory(disk') = inventory'
     /\ Len(inflight') > Len(inflight) => UNCHANGED <<inventory, disk>>
     /\ (Idle /\ req'.route = "/register" /\ res'.status = 201) =>
          /\ ~Known(inventory, res'.body.id)
          /\ Len(inventory') = Len(inventory) + 1
          /\ SubSeq(inventory', 1, Len(inventory)) = inventory
          /\ inventory'[Len(inventory')].id = res'.body.id
          /\ inventory'[Len(inventory')].photoFilename =
               IF req'.file = Undefined THEN Null ELSE req'.file
     /\ (Idle /\ req'.route = "/inventory/:id/photo" /\ res'.status = 200) =>
          /\ Len(inventory') = Len(inventory)
          /\ \A j \in 1..Len(inventory) :
               inventory'[j] =
                 IF inventory[j].id = req'.id
                 THEN [inventory[j] EXCEPT !.photoFilename = req'.file]
                 ELSE inventory[j]
     /\ (Idle /\ req'.route = "/inventory/:id" /\ req'.method = "PUT"
           /\ res'.status = 200) =>
          /\ Len(inventory') = Len(inventory)
          /\ \A j \in 1..Len(inventory) :
               /\ inventory'[j].id = inventory[j].id
               /\ inventory'[j].photoFilename = inventory[j].photoFilename
               /\ inventory[j].id # req'.id => inventory'[j] = inventory[j]]_vars

C17_Witness ==
  /\ Handled("POST", "/register")
  /\ res.status = 201
  /\ Len(inventory) = 2
  /\ inventory[1].photoFilename = FileName(2)
  /\ inventory[2].photoFilename = FileName(1)
  /\ loadInventory(disk) = inventory

\* C18: while nothing but the service removes files from the photo
\* directory, every item of the collection that refers to a photo refers
\* to a file that is in the directory and whose deletion is not pending,
\* also when the id of a deleted item has been given again.
C18_ReferencedBlobExists ==
  \A i \in 1..Len(inventory) :
    inventory[i].photoFilename # Null =>
      /\ inventory[i].photoFilename \in blobs
      /\ inventory[i].photoFilename \notin unlinking

C18_Witness ==
  /\ Handled("POST", "/register")
  /\ res.status = 201
  /\ freed.reused
  /\ inventory[Len(inventory)].photoFilename = FileName(2)
  /\ FileName(1) \in unlinking
  /\ FileName(1) \in blobs

\* C19: from the empty collection on, the numeric ids of the items grow
\* strictly along the collection, which is the order a list shows them in.
C19_IdsIncreaseAlongList ==
  \A i, j \in 1..Len(inventory) :
    i < j => Number(inventory[i].id) < Number(inventory[j].id)

C19_Witness ==
  /\ Handled("POST", "/register")
  /\ res.status = 201
  /\ freed.reused
  /\ Len(inventory) = 2
  /\ Number(inventory[1].id) = 1
  /\ Number(inventory[2].id) = 2
  /\ inventory[1].description # <<>>

\* k copies of a note, one after the other
RECURSIVE Copies(_, _)
Copies(note, k) == IF k = 0 THEN <<>> ELSE note \o Copies(note, k - 1)

\* C20: the annotating search is cumulative: the description of an item
\* that was annotated k times since it was created or its description was
\* updated is its original description followed by k copies of the note
\* "\nPhoto: <url>"; one more annotating search stores and writes to disk
\* the original followed by k + 1 copies and answers exactly that, which is
\* not what the description was before.
C20_SearchIsCumulative ==
  [][(Handling("POST", "/search") /\ res'.status = 200
        /\ req'.has_photo \notin {Undefined, Null, <<>>}
        /\ inventory[IndexOf(inventory, req'.id)].photoFilename # Null) =>
       LET i == IndexOf(inventory, req'.id)
           old == inventory[i].description
           note == <<"\nPhoto: ", "http", "://", req'.host, "/inventory/">>
                     \o req'.id \o <<"/photo">>
           k == NoteCount(old)
           original == SubSeq(old, 1, Len(old) - k * Len(note))
       IN /\ NoteCount(original) = 0
          /\ old = original \o Copies(note, k)
          /\ inventory'[i].description = original \o Copies(note, k + 1)
          /\ res'.body.description = inventory'[i].description
          /\ loadInventory(disk')[i].description = inventory'[i].description
          /\ res'.body.description # old]_vars

C20_Witness ==
  /\ Handled("POST", "/search")
  /\ res.status = 200
  /\ res.body.description =
       <<"d">> \o Copies(<<"\nPhoto: ">> \o res.body.photo_url, 2)
  /\ inventory[IndexOf(inventory, req.id)].description = res.body.description

====
